---- MODULE Spec2Model ----
(***************************************************************************)
(* Model of animation-review/scripts/analyze.py: argument resolution       *)
(* (resolve_mode, build_system_prompt), the provider calls (call_gemini,   *)
(* call_kimi), JSON recovery (extract_json_from_response) and main.        *)
(*                                                                         *)
(* Texts (provider replies, serialised JSON) are sequences of lexical      *)
(* tokens:  "{" "}"  braces, "m" one complete member ("summary":"ok"),     *)
(* "0" the number zero, "F" a three-backtick fence, "json" the fence tag,  *)
(* "ws" white space or a line break, "x" a word of prose.                  *)
(***************************************************************************)
EXTENDS Integers, Sequences, FiniteSets, TLC

VARIABLES
    args,         \* argparse namespace returned by parse_args
    pc,           \* position of main (and of the call it is in)
    resolved,     \* None, or Some(tuple returned by resolve_mode)
    env,          \* what the run has observed of its environment so far
    use_raw,      \* main's use_raw, rebound by call_gemini / call_kimi
    raw_text,     \* None, or Some(response text of the last request)
    output_text,  \* None, or Some(output_text returned by the provider call)
    metadata,     \* metadata returned by the provider call
    requests,     \* requests issued to the provider so far, in order
    in_flight,    \* requests issued and not yet answered
    ffmpeg_runs,  \* ffmpeg invocations of preprocess_video_for_kimi
    stdout,       \* texts printed on stdout, in order
    stderr,       \* messages printed on stderr, in order
    exit_code,    \* the process's exit status once pc = "exited"
    results_dir,  \* None until save_results ran, then Some(files it left)
    fs_ops,       \* operations done on the results directory, in order
    text,         \* input handed to extract_json_from_response (SpecExtract)
    extracted     \* None, or Some(result of extract_json_from_response)

vars == <<args, pc, resolved, env, use_raw, raw_text, output_text, metadata,
          requests, in_flight, ffmpeg_runs, stdout, stderr, exit_code,
          results_dir, fs_ops, text, extracted>>

\* Python's None / a present value, as a set of at most one element
None == {}
Some(x) == {x}
Get(o) == CHOOSE x \in o : TRUE

(***************************************************************************)
(* Bounds of the model                                                     *)
(***************************************************************************)
\* --fps overrides range over -NegFps .. MAX_FPS + OverFps
NegFps == 2
OverFps == 3
\* replies handed to extract_json_from_response have at most MaxTextLen tokens
MaxTextLen == 4

(***************************************************************************)
(* Static configuration                                                    *)
(***************************************************************************)
MAX_FPS == 24
CLEANUP_AGE_DAYS == 14

PROVIDERS ==
    ("gemini" :> [env_key |-> "GEMINI_API_KEY"]) @@
    ("kimi" :> [env_key |-> "KIMI_API_KEY"])

KIMI_MODEL_MAP_swapped ==
    ("gemini-2.5-flash" :> [model |-> "kimi-k2.5", thinking |-> TRUE]) @@
    ("gemini-2.5-pro" :> [model |-> "kimi-k2.5", thinking |-> FALSE])

KIMI_MODEL_MAP ==
    ("gemini-2.5-flash" :> [model |-> "kimi-k2.5", thinking |-> FALSE]) @@
    ("gemini-2.5-pro" :> [model |-> "kimi-k2.5", thinking |-> TRUE])

MODES ==
    ("check" :> [fps |-> 5, model |-> "gemini-2.5-flash"]) @@
    ("review" :> [fps |-> 12, model |-> "gemini-2.5-flash"]) @@
    ("diagnose" :> [fps |-> 24, model |-> "gemini-2.5-pro"]) @@
    ("inspire" :> [fps |-> 24, model |-> "gemini-2.5-pro"])

\* the mode bodies: only their identity and their section headers are kept
SYSTEM_PROMPTS ==
    [m \in DOMAIN MODES |->
        [mode |-> m,
         headers |-> IF m = "diagnose" THEN {"Observations", "Hypotheses"} ELSE {}]]

REVIEW_SCHEMA ==
    [name |-> "REVIEW_SCHEMA",
     required |-> {"summary", "animations", "issues", "score", "recommendations"}]
INSPIRE_SCHEMA ==
    [name |-> "INSPIRE_SCHEMA",
     required |-> {"summary", "effects", "choreography", "notable_details"}]
DIAGNOSE_SCHEMA ==
    [name |-> "DIAGNOSE_SCHEMA",
     required |-> {"summary", "observations", "hypotheses"}]

MODE_SCHEMAS_diagnose_as_review ==
    ("check" :> REVIEW_SCHEMA) @@ ("review" :> REVIEW_SCHEMA) @@
    ("diagnose" :> REVIEW_SCHEMA) @@ ("inspire" :> INSPIRE_SCHEMA)

MODE_SCHEMAS ==
    ("check" :> REVIEW_SCHEMA) @@ ("review" :> REVIEW_SCHEMA) @@
    ("diagnose" :> DIAGNOSE_SCHEMA) @@ ("inspire" :> INSPIRE_SCHEMA)

RAW_DEFAULT_MODES_inspire_only == {"inspire"}

RAW_DEFAULT_MODES == {"diagnose", "inspire"}

(***************************************************************************)
(* build_system_prompt                                                     *)
(***************************************************************************)
Abs(x) == IF x < 0 THEN -x ELSE x

PyRoundDiv_halfup(n, d) ==
    LET q == Abs(n) \div Abs(d)
        r == Abs(n) % Abs(d)
        mag == IF 2 * r < Abs(d) THEN q ELSE q + 1
    IN  IF (n < 0) # (d < 0) THEN -mag ELSE mag

\* Python 3 round(n / d), d # 0: the nearest integer, a tie going to the even one
PyRoundDiv(n, d) ==
    LET q == Abs(n) \div Abs(d)
        r == Abs(n) % Abs(d)
        mag == IF 2 * r < Abs(d) THEN q
               ELSE IF 2 * r > Abs(d) THEN q + 1
               ELSE IF q % 2 = 0 THEN q ELSE q + 1
    IN  IF (n < 0) # (d < 0) THEN -mag ELSE mag

\* TEMPORAL_PREAMBLE / TEMPORAL_PREAMBLE_KIMI after .format(): the template
\* and the numbers substituted into it (example_t1, example_t2 in ms)
FormatPreamble(template, fps, interval_ms) ==
    [template |-> template,
     fps |-> fps,
     interval_ms |-> interval_ms,
     example_duration |-> interval_ms * 3,
     example_t1 |-> 1000,
     example_t2 |-> 1000 + interval_ms]

\* 1000 / fps raises ZeroDivisionError
build_system_prompt_raises(mode_name, fps, provider, schema) == fps = 0

build_system_prompt_always_schema(mode_name, fps, provider, schema) ==
    [preamble |-> FormatPreamble(
                      IF provider = "kimi" THEN "TEMPORAL_PREAMBLE_KIMI"
                                           ELSE "TEMPORAL_PREAMBLE",
                      fps, PyRoundDiv(1000, fps)),
     body |-> SYSTEM_PROMPTS[mode_name],
     schema_instruction |-> IF schema # None THEN schema ELSE None]

\* the prompt as its three parts: preamble + SYSTEM_PROMPTS[mode_name]
\* (+ JSON_SCHEMA_INSTRUCTION with the schema rendered by json.dumps);
\* schema is None or Some(schema)
build_system_prompt(mode_name, fps, provider, schema) ==
    [preamble |-> FormatPreamble(
                      IF provider = "kimi" THEN "TEMPORAL_PREAMBLE_KIMI"
                                           ELSE "TEMPORAL_PREAMBLE",
                      fps, PyRoundDiv(1000, fps)),
     body |-> SYSTEM_PROMPTS[mode_name],
     schema_instruction |-> IF provider = "kimi" /\ schema # None
                            THEN schema ELSE None]

(***************************************************************************)
(* resolve_mode                                                            *)
(***************************************************************************)
ResolveModeName(a) == IF a.mode # None THEN Get(a.mode) ELSE "review"

RequestedFps(a) ==
    IF a.fps # None THEN Get(a.fps) ELSE MODES[ResolveModeName(a)].fps

ClampFps_off(fps) == fps

\* lines 732-734
ClampFps(fps) == IF fps > MAX_FPS THEN MAX_FPS ELSE fps

ResolveUseRaw_raw_first(a) ==
    IF a.raw THEN TRUE
    ELSE IF a.json THEN FALSE
    ELSE ResolveModeName(a) \in RAW_DEFAULT_MODES

\* lines 739-745: explicit flags > mode default
ResolveUseRaw(a) ==
    IF a.json THEN FALSE
    ELSE IF a.raw THEN TRUE
    ELSE ResolveModeName(a) \in RAW_DEFAULT_MODES

resolve_mode_raises(a) ==
    build_system_prompt_raises(ResolveModeName(a), ClampFps(RequestedFps(a)),
                               a.provider, None)

\* what resolve_mode prints on stderr
resolve_mode_stderr(a) ==
    IF RequestedFps(a) > MAX_FPS
    THEN <<"Warning: FPS exceeds max, capping">> ELSE <<>>

resolve_mode_prompt_before_cap(a) ==
    LET mode_name == ResolveModeName(a)
        schema == MODE_SCHEMAS[mode_name]
        raw == ResolveUseRaw(a)
    IN  [fps |-> ClampFps(RequestedFps(a)),
         model |-> IF a.model # None THEN Get(a.model) ELSE MODES[mode_name].model,
         system_prompt |-> build_system_prompt(mode_name, RequestedFps(a), a.provider,
                               IF raw THEN None ELSE Some(schema)),
         schema |-> schema,
         use_raw |-> raw,
         mode_name |-> mode_name]

\* the tuple (fps, model, system_prompt, schema, use_raw, mode_name)
resolve_mode(a) ==
    LET mode_name == ResolveModeName(a)
        fps == ClampFps(RequestedFps(a))
        schema == MODE_SCHEMAS[mode_name]
        raw == ResolveUseRaw(a)
    IN  [fps |-> fps,
         model |-> IF a.model # None THEN Get(a.model) ELSE MODES[mode_name].model,
         system_prompt |-> build_system_prompt(mode_name, fps, a.provider,
                               IF raw THEN None ELSE Some(schema)),
         schema |-> schema,
         use_raw |-> raw,
         mode_name |-> mode_name]

(***************************************************************************)
(* Texts and JSON (json.loads, json.dumps, str.strip, re.search)           *)
(***************************************************************************)
Tokens == {"{", "}", "m", "0", "F", "json", "ws", "x"}

\* JSON values: an object with n members, or the number n
JsonObject(n) == [kind |-> "object", n |-> n]
JsonNumber(n) == [kind |-> "number", n |-> n]

\* Python truth value of a parsed JSON value: {} and 0 are falsy
Truthy(v) == v.n # 0

NoWs(s) == SelectSeq(s, LAMBDA t : t # "ws")

\* json.loads: Some(value), or None for JSONDecodeError; white space between
\* the tokens of a value is insignificant, anything else around it is an error
json_loads(s) ==
    LET t == NoWs(s)
    IN  IF t = <<"{", "}">> THEN Some(JsonObject(0))
        ELSE IF t = <<"{", "m", "}">> THEN Some(JsonObject(1))
        ELSE IF t = <<"0">> THEN Some(JsonNumber(0))
        ELSE None

\* json.dumps(v, indent=2): members go on lines of their own
json_dumps(v) ==
    IF v.kind = "number" THEN <<"0">>
    ELSE IF v.n = 0 THEN <<"{", "}">>
    ELSE <<"{", "ws", "m", "ws", "}">>

\* str.strip()
Strip(s) ==
    LET keep == {i \in 1..Len(s) : s[i] # "ws"}
    IN  IF keep = {} THEN <<>>
        ELSE SubSeq(s, CHOOSE i \in keep : \A j \in keep : i <= j,
                       CHOOSE i \in keep : \A j \in keep : j <= i)

Min(S) == CHOOSE i \in S : \A j \in S : i <= j
Max(S) == CHOOSE i \in S : \A j \in S : j <= i

\* re.search(r"```(?:json)?\s*\n?(.*?)\n?\s*```", s, re.DOTALL): None when
\* nothing matches, else Some(group(1)).  The leftmost match opens at the
\* first fence that has a fence after it; the optional tag and the white
\* space after it are consumed greedily, the lazy group ends where only
\* white space separates it from the next fence.
FencedSearch(s) ==
    LET fences == {i \in 1..Len(s) : s[i] = "F"}
    IN  IF Cardinality(fences) < 2 THEN None
        ELSE LET open == Min(fences)
                 after == IF s[open + 1] = "json" THEN open + 2 ELSE open + 1
                 start == Min({i \in after..Len(s) : s[i] # "ws"})
                 close == Min({i \in fences : i >= start})
                 inner == {i \in start..(close - 1) : s[i] # "ws"}
             IN  Some(IF inner = {} THEN <<>> ELSE SubSeq(s, start, Max(inner)))

\* s[s.find("{") : s.rfind("}") + 1] when brace_start != -1 and
\* brace_end > brace_start, else None
BraceBlock(s) ==
    LET opens == {i \in 1..Len(s) : s[i] = "{"}
        closes == {i \in 1..Len(s) : s[i] = "}"}
    IN  IF opens # {} /\ closes # {} /\ Max(closes) > Min(opens)
        THEN Some(SubSeq(s, Min(opens), Max(closes)))
        ELSE None

(***************************************************************************)
(* extract_json_from_response                                              *)
(***************************************************************************)
extract_json_from_response_no_fence(t) ==
    LET stripped == Strip(t)
        direct == json_loads(stripped)
        brace == BraceBlock(stripped)
        braceValue == IF brace # None THEN json_loads(Get(brace)) ELSE None
    IN  IF direct # None THEN [parsed |-> direct, was_clean |-> TRUE]
        ELSE IF braceValue # None THEN [parsed |-> braceValue, was_clean |-> FALSE]
        ELSE [parsed |-> None, was_clean |-> FALSE]

\* returns (parsed, was_clean); parsed = None is Python's None
extract_json_from_response(t) ==
    LET stripped == Strip(t)
        direct == json_loads(stripped)
        fenced == FencedSearch(stripped)
        fencedValue == IF fenced # None THEN json_loads(Get(fenced)) ELSE None
        brace == BraceBlock(stripped)
        braceValue == IF brace # None THEN json_loads(Get(brace)) ELSE None
    IN  IF direct # None THEN [parsed |-> direct, was_clean |-> TRUE]
        ELSE IF fencedValue # None THEN [parsed |-> fencedValue, was_clean |-> FALSE]
        ELSE IF braceValue # None THEN [parsed |-> braceValue, was_clean |-> FALSE]
        ELSE [parsed |-> None, was_clean |-> FALSE]

(***************************************************************************)
(* Inputs                                                                  *)
(***************************************************************************)
ModeArgs == {None} \cup {Some(m) : m \in DOMAIN MODES}
FpsArgs == {None} \cup {Some(f) : f \in (0 - NegFps)..(MAX_FPS + OverFps)}
\* the --fps values a whole run is followed for: negative, zero, in range,
\* the ceiling, above the ceiling
RunFpsArgs == {None} \cup {Some(f) : f \in {0 - NegFps, 0, 5, 16, MAX_FPS + OverFps}}
ModelArgs ==
    {None, Some("gemini-2.5-flash"), Some("gemini-2.5-pro"), Some("gemini-2.0-flash")}
VideoExts == {".mp4", ".mov", ".webm", ".avi"}

ArgsOver(fpsArgs) ==
    [mode : ModeArgs, fps : fpsArgs, model : ModelArgs, provider : DOMAIN PROVIDERS,
     raw : BOOLEAN, json : BOOLEAN, no_save : BOOLEAN, video_ext : VideoExts]

\* replies of a provider
SampleResponses ==
    { <<"{", "m", "}">>,
      <<"F", "json", "ws", "{", "m", "}", "ws", "F">>,
      <<"x", "{", "m", "}", "x">>,
      <<"x", "x">>,
      <<"{", "}">>,
      <<>> }

\* files the results directory may hold before a run: [name, ext, age in
\* days, regular file or not, content]
OldFile == [name |-> "old", ext |-> ".json", age |-> CLEANUP_AGE_DAYS + 1,
            isfile |-> TRUE, content |-> <<>>]
EdgeFile == [name |-> "edge", ext |-> ".md", age |-> CLEANUP_AGE_DAYS,
             isfile |-> TRUE, content |-> <<>>]
OldSubdir == [name |-> "subdir", ext |-> "", age |-> CLEANUP_AGE_DAYS + 1,
              isfile |-> FALSE, content |-> <<>>]
PreDirs == {None, Some({OldFile, EdgeFile, OldSubdir})}

(***************************************************************************)
(* main                                                                    *)
(***************************************************************************)
EnvUnread == [credential |-> "unread", video |-> "unread", sdk |-> "unread",
              ffmpeg |-> "unread", video_dir |-> "unread", git |-> "unread"]

Idle ==
    /\ resolved = None
    /\ env = EnvUnread
    /\ use_raw = FALSE
    /\ raw_text = None
    /\ output_text = None
    /\ metadata = [kimi_mode |-> None]
    /\ requests = <<>>
    /\ in_flight = 0
    /\ ffmpeg_runs = <<>>
    /\ stdout = <<>>
    /\ stderr = <<>>
    /\ exit_code = 0
    /\ results_dir = None
    /\ fs_ops = <<>>
    /\ text = <<>>
    /\ extracted = None

Init ==
    /\ args \in ArgsOver(RunFpsArgs)
    /\ pc = "resolve"
    /\ Idle

\* sys.exit(code), or an uncaught exception (code 1), after printing msgs
Exit(code, msgs) ==
    /\ pc' = "exited"
    /\ exit_code' = code
    /\ stderr' = stderr \o msgs

\* line 756
main_resolve_mode ==
    /\ pc = "resolve"
    /\ ~resolve_mode_raises(args)
    /\ resolved' = Some(resolve_mode(args))
    /\ use_raw' = resolve_mode(args).use_raw
    /\ stderr' = stderr \o resolve_mode_stderr(args)
    /\ pc' = "credential"
    /\ UNCHANGED <<args, env, raw_text, output_text, metadata, requests, in_flight,
                   ffmpeg_runs, stdout, exit_code, results_dir, fs_ops, text,
                   extracted>>

\* line 756, build_system_prompt dividing by zero: the exception is not caught
main_resolve_mode_raises ==
    /\ pc = "resolve"
    /\ resolve_mode_raises(args)
    /\ Exit(1, resolve_mode_stderr(args) \o <<"Traceback: ZeroDivisionError">>)
    /\ UNCHANGED <<args, resolved, env, use_raw, raw_text, output_text, metadata,
                   requests, in_flight, ffmpeg_runs, stdout, results_dir, fs_ops,
                   text, extracted>>

\* lines 759-764
main_api_key ==
    /\ pc = "credential"
    /\ \E k \in {"set", "unset"} :
        /\ env' = [env EXCEPT !.credential = k]
        /\ IF k = "unset"
           THEN Exit(1, <<"Error: environment variable not set">>)
           ELSE pc' = "video" /\ UNCHANGED <<exit_code, stderr>>
    /\ UNCHANGED <<args, resolved, use_raw, raw_text, output_text, metadata,
                   requests, in_flight, ffmpeg_runs, stdout, results_dir, fs_ops,
                   text, extracted>>

\* lines 776-780
ProviderLabel ==
    IF args.provider = "kimi"
    THEN IF Get(resolved).model \in DOMAIN KIMI_MODEL_MAP
            /\ KIMI_MODEL_MAP[Get(resolved).model].thinking
         THEN "kimi (thinking)" ELSE "kimi (instant)"
    ELSE "gemini"

\* lines 766-802, up to the dispatch
main_video ==
    /\ pc = "video"
    /\ \E v \in {"exists", "missing"} :
        /\ env' = [env EXCEPT !.video = v]
        /\ IF v = "missing"
           THEN Exit(1, <<"Error: Video file not found">>)
           ELSE /\ stderr' = Append(stderr, "Analyzing with " \o ProviderLabel)
                /\ pc' = IF args.provider = "gemini" THEN "call_gemini" ELSE "call_kimi"
                /\ UNCHANGED exit_code
    /\ UNCHANGED <<args, resolved, use_raw, raw_text, output_text, metadata,
                   requests, in_flight, ffmpeg_runs, stdout, results_dir, fs_ops,
                   text, extracted>>

(***************************************************************************)
(* call_gemini                                                             *)
(***************************************************************************)
MimeType_any(ext) == Some("video/mp4")

\* mime_types.get(ext), lines 426-428
MimeType(ext) ==
    IF ext = ".mp4" THEN Some("video/mp4")
    ELSE IF ext = ".mov" THEN Some("video/quicktime")
    ELSE IF ext = ".webm" THEN Some("video/webm")
    ELSE None

\* generate_content(model, contents, config): contents carry VideoMetadata(fps)
GeminiRequest(structured) ==
    [provider |-> "gemini",
     model |-> Get(resolved).model,
     fps |-> Get(resolved).fps,
     system_prompt |-> Get(resolved).system_prompt,
     structured |-> structured,
     schema |-> IF structured THEN Some(Get(resolved).schema) ELSE None,
     thinking |-> None]

call_gemini_enter_checks_late ==
    /\ pc = "call_gemini"
    /\ \E sdk \in {"installed", "missing"} :
        /\ env' = [env EXCEPT !.sdk = sdk]
        /\ IF sdk = "missing"
           THEN /\ Exit(1, <<"Error: google-genai package not installed">>)
                /\ UNCHANGED requests
           ELSE IF MimeType(args.video_ext) = None
           THEN /\ requests' = Append(requests, GeminiRequest(~use_raw))
                /\ Exit(1, <<"Error: Unsupported video format">>)
           ELSE /\ pc' = IF use_raw THEN "gemini_raw" ELSE "gemini_structured"
                /\ UNCHANGED <<exit_code, stderr, requests>>
    /\ UNCHANGED <<args, resolved, use_raw, raw_text, output_text, metadata,
                   in_flight, ffmpeg_runs, stdout, results_dir, fs_ops,
                   text, extracted>>

\* lines 416-434
call_gemini_enter ==
    /\ pc = "call_gemini"
    /\ \E sdk \in {"installed", "missing"} :
        /\ env' = [env EXCEPT !.sdk = sdk]
        /\ IF sdk = "missing"
           THEN Exit(1, <<"Error: google-genai package not installed">>)
           ELSE IF MimeType(args.video_ext) = None
           THEN Exit(1, <<"Error: Unsupported video format">>)
           ELSE /\ pc' = IF use_raw THEN "gemini_raw" ELSE "gemini_structured"
                /\ UNCHANGED <<exit_code, stderr>>
    /\ UNCHANGED <<args, resolved, use_raw, raw_text, output_text, metadata,
                   requests, in_flight, ffmpeg_runs, stdout, results_dir, fs_ops,
                   text, extracted>>

\* lines 464-474: the structured request is issued
call_gemini_structured_send ==
    /\ pc = "gemini_structured"
    /\ requests' = Append(requests, GeminiRequest(TRUE))
    /\ in_flight' = in_flight + 1
    /\ pc' = "gemini_structured_wait"
    /\ UNCHANGED <<args, resolved, env, use_raw, raw_text, output_text, metadata,
                   ffmpeg_runs, stdout, stderr, exit_code, results_dir, fs_ops,
                   text, extracted>>

\* lines 475-476: the reply parses
call_gemini_structured_ok ==
    /\ pc = "gemini_structured_wait"
    /\ \E t \in SampleResponses :
        /\ json_loads(t) # None
        /\ raw_text' = Some(t)
        /\ output_text' = Some(json_dumps(Get(json_loads(t))))
    /\ in_flight' = in_flight - 1
    /\ pc' = "print"
    /\ UNCHANGED <<args, resolved, env, use_raw, metadata, requests, ffmpeg_runs,
                   stdout, stderr, exit_code, results_dir, fs_ops, text, extracted>>

\* lines 477-479: the request raised, or its reply did not parse
call_gemini_structured_failed ==
    /\ pc = "gemini_structured_wait"
    /\ \E outcome \in {None} \cup {Some(t) : t \in SampleResponses} :
        outcome # None => json_loads(Get(outcome)) = None
    /\ in_flight' = in_flight - 1
    /\ stderr' = Append(stderr, "Structured output failed, falling back to raw text...")
    /\ use_raw' = TRUE
    /\ pc' = "gemini_raw"
    /\ UNCHANGED <<args, resolved, env, raw_text, output_text, metadata, requests,
                   ffmpeg_runs, stdout, exit_code, results_dir, fs_ops, text,
                   extracted>>

\* lines 481-488: the free-text request is issued
call_gemini_raw_send ==
    /\ pc = "gemini_raw"
    /\ requests' = Append(requests, GeminiRequest(FALSE))
    /\ in_flight' = in_flight + 1
    /\ pc' = "gemini_raw_wait"
    /\ UNCHANGED <<args, resolved, env, use_raw, raw_text, output_text, metadata,
                   ffmpeg_runs, stdout, stderr, exit_code, results_dir, fs_ops,
                   text, extracted>>

\* lines 489-497
call_gemini_raw_ok ==
    /\ pc = "gemini_raw_wait"
    /\ \E t \in SampleResponses :
        /\ raw_text' = Some(t)
        /\ output_text' = Some(t)
    /\ in_flight' = in_flight - 1
    /\ pc' = "print"
    /\ UNCHANGED <<args, resolved, env, use_raw, metadata, requests, ffmpeg_runs,
                   stdout, stderr, exit_code, results_dir, fs_ops, text, extracted>>

call_gemini_raw_retries ==
    /\ pc = "gemini_raw_wait"
    /\ in_flight' = in_flight - 1
    /\ pc' = "gemini_raw"
    /\ UNCHANGED <<args, resolved, env, use_raw, raw_text, output_text, metadata,
                   requests, ffmpeg_runs, stdout, stderr, exit_code, results_dir,
                   fs_ops, text, extracted>>

\* line 482 raising: nothing catches it
call_gemini_raw_raises ==
    /\ pc = "gemini_raw_wait"
    /\ in_flight' = in_flight - 1
    /\ Exit(1, <<"Traceback: provider request failed">>)
    /\ UNCHANGED <<args, resolved, env, use_raw, raw_text, output_text, metadata,
                   requests, ffmpeg_runs, stdout, results_dir, fs_ops, text,
                   extracted>>

(***************************************************************************)
(* call_kimi                                                               *)
(***************************************************************************)
KimiConfig_default(model) ==
    IF model \in DOMAIN KIMI_MODEL_MAP THEN Some(KIMI_MODEL_MAP[model])
    ELSE Some(KIMI_MODEL_MAP["gemini-2.5-flash"])

\* KIMI_MODEL_MAP.get(model), line 511
KimiConfig(model) ==
    IF model \in DOMAIN KIMI_MODEL_MAP THEN Some(KIMI_MODEL_MAP[model]) ELSE None

\* chat.completions.create(**kwargs): the video attached is ffmpeg's output
KimiRequest ==
    LET kimi_config == Get(KimiConfig(Get(resolved).model))
    IN  [provider |-> "kimi",
         model |-> kimi_config.model,
         fps |-> ffmpeg_runs[Len(ffmpeg_runs)].fps,
         system_prompt |-> Get(resolved).system_prompt,
         structured |-> FALSE,
         schema |-> None,
         thinking |-> Some(kimi_config.thinking)]

\* lines 502-518
call_kimi_enter ==
    /\ pc = "call_kimi"
    /\ \E sdk \in {"installed", "missing"} :
        /\ env' = [env EXCEPT !.sdk = sdk]
        /\ IF sdk = "missing"
           THEN Exit(1, <<"Error: openai package not installed">>)
           ELSE IF KimiConfig(Get(resolved).model) = None
           THEN Exit(1, <<"Error: No Kimi mapping for model">>)
           ELSE pc' = "kimi_preprocess" /\ UNCHANGED <<exit_code, stderr>>
    /\ UNCHANGED <<args, resolved, use_raw, raw_text, output_text, metadata,
                   requests, in_flight, ffmpeg_runs, stdout, results_dir, fs_ops,
                   text, extracted>>

\* lines 335-367, called at line 520
preprocess_video_for_kimi ==
    /\ pc = "kimi_preprocess"
    /\ ffmpeg_runs' = Append(ffmpeg_runs, [fps |-> Get(resolved).fps])
    /\ \E r \in {"ok", "failed"} :
        /\ env' = [env EXCEPT !.ffmpeg = r]
        /\ IF r = "failed"
           THEN Exit(1, <<"Error: ffmpeg pre-processing failed">>)
           ELSE /\ stderr' = Append(stderr, "Pre-processed video")
                /\ pc' = "kimi_send"
                /\ UNCHANGED exit_code
    /\ UNCHANGED <<args, resolved, use_raw, raw_text, output_text, metadata,
                   requests, in_flight, stdout, results_dir, fs_ops, text,
                   extracted>>

\* lines 522-554: the request is issued
call_kimi_send ==
    /\ pc = "kimi_send"
    /\ requests' = Append(requests, KimiRequest)
    /\ in_flight' = in_flight + 1
    /\ pc' = "kimi_wait"
    /\ UNCHANGED <<args, resolved, env, use_raw, raw_text, output_text, metadata,
                   ffmpeg_runs, stdout, stderr, exit_code, results_dir, fs_ops,
                   text, extracted>>

\* line 554 raising: nothing catches it
call_kimi_raises ==
    /\ pc = "kimi_wait"
    /\ in_flight' = in_flight - 1
    /\ Exit(1, <<"Traceback: provider request failed">>)
    /\ UNCHANGED <<args, resolved, env, use_raw, raw_text, output_text, metadata,
                   requests, ffmpeg_runs, stdout, results_dir, fs_ops, text,
                   extracted>>

\* line 569, "if parsed:"
KimiParsedOk(e) == e.parsed # None /\ Truthy(Get(e.parsed))

call_kimi_decode_keeps_mode(t, raw) ==
    IF raw
    THEN [output_text |-> t, use_raw |-> TRUE, stderr |-> <<>>, extracted |-> None]
    ELSE LET e == extract_json_from_response(t)
         IN  IF KimiParsedOk(e)
             THEN [output_text |-> json_dumps(Get(e.parsed)), use_raw |-> FALSE,
                   stderr |-> IF e.was_clean THEN <<>>
                              ELSE <<"Note: Extracted JSON from non-clean response">>,
                   extracted |-> Some(e)]
             ELSE [output_text |-> t, use_raw |-> FALSE,
                   stderr |-> <<"Warning: Could not extract JSON, returning raw text">>,
                   extracted |-> Some(e)]

\* lines 564-578: (output_text, use_raw) returned for reply t, what is
\* printed on stderr, and the result of extract_json_from_response if called
call_kimi_decode(t, raw) ==
    IF raw
    THEN [output_text |-> t, use_raw |-> TRUE, stderr |-> <<>>, extracted |-> None]
    ELSE LET e == extract_json_from_response(t)
         IN  IF KimiParsedOk(e)
             THEN [output_text |-> json_dumps(Get(e.parsed)), use_raw |-> FALSE,
                   stderr |-> IF e.was_clean THEN <<>>
                              ELSE <<"Note: Extracted JSON from non-clean response">>,
                   extracted |-> Some(e)]
             ELSE [output_text |-> t, use_raw |-> TRUE,
                   stderr |-> <<"Warning: Could not extract JSON, returning raw text">>,
                   extracted |-> Some(e)]

\* lines 554-578: the reply arrives and is decoded
call_kimi_reply ==
    /\ pc = "kimi_wait"
    /\ in_flight' = in_flight - 1
    /\ metadata' = [kimi_mode |->
           Some(IF Get(KimiConfig(Get(resolved).model)).thinking
                THEN "thinking" ELSE "instant")]
    /\ \E t \in SampleResponses :
        LET d == call_kimi_decode(t, use_raw)
        IN  /\ raw_text' = Some(t)
            /\ output_text' = Some(d.output_text)
            /\ use_raw' = d.use_raw
            /\ stderr' = stderr \o d.stderr
            /\ extracted' = d.extracted
    /\ pc' = "print"
    /\ UNCHANGED <<args, resolved, env, requests, ffmpeg_runs, stdout, exit_code,
                   results_dir, fs_ops, text>>

(***************************************************************************)
(* Results persistence                                                     *)
(***************************************************************************)
\* where args.video lies (lines 639-648) and whether it was last modified
\* more than CLEANUP_AGE_DAYS ago
VideoDirs ==
    {"tmp", "tmp_old", "elsewhere", "elsewhere_old", "results", "results_old"}

\* days since the video file was last modified
VideoAge(d) ==
    IF d \in {"tmp_old", "elsewhere_old", "results_old"}
    THEN CLEANUP_AGE_DAYS + 1 ELSE 0

VideoInResults(d) ==
    [name |-> "video", ext |-> args.video_ext, age |-> VideoAge(d),
     isfile |-> TRUE, content |-> <<>>]

\* the directory before save_results: None when it does not exist
DirBefore(pre, d) ==
    IF d \in {"results", "results_old"}
    THEN Some((IF pre = None THEN {} ELSE Get(pre)) \cup {VideoInResults(d)})
    ELSE pre

\* line 614
Expired(f) == f.isfile /\ f.age > CLEANUP_AGE_DAYS

\* cleanup_old_results, lines 606-618: the files left
cleanup_old_results(files) == {f \in files : ~Expired(f)}

AnalysisExt_swapped(raw) == IF raw THEN ".json" ELSE ".md"

\* line 631
AnalysisExt(raw) == IF raw THEN ".md" ELSE ".json"

\* save_results, lines 621-650: the files in the directory afterwards;
\* shutil.move and shutil.copy2 keep the modification time of the video
save_results(before, d) ==
    LET kept == cleanup_old_results(IF before = None THEN {} ELSE Get(before))
        analysis == [name |-> "analysis", ext |-> AnalysisExt(use_raw), age |-> 0,
                     isfile |-> TRUE, content |-> Get(output_text)]
        video == [name |-> "saved_video", ext |-> args.video_ext,
                  age |-> VideoAge(d), isfile |-> TRUE, content |-> <<>>]
    IN  kept \cup {analysis}
             \cup (IF d \in {"results", "results_old"} THEN {} ELSE {video})

\* the operations save_results performs on the file system, in order
save_results_ops(before, d, git) ==
    (IF before = None THEN <<"makedirs">> ELSE <<>>)
    \o (IF git = "not_ignored" THEN <<"append .gitignore">> ELSE <<>>)
    \o (IF before # None /\ \E f \in Get(before) : Expired(f)
        THEN <<"remove">> ELSE <<>>)
    \o <<"write analysis">>
    \o (IF d \in {"tmp", "tmp_old"} THEN <<"move video">>
        ELSE IF d \in {"elsewhere", "elsewhere_old"} THEN <<"copy video">>
        ELSE <<>>)

\* lines 804-816
main_print ==
    /\ pc = "print"
    /\ stdout' = Append(stdout, Get(output_text))
    /\ stderr' = Append(stderr, "[metadata]")
    /\ pc' = "save"
    /\ UNCHANGED <<args, resolved, env, use_raw, raw_text, output_text, metadata,
                   requests, in_flight, ffmpeg_runs, exit_code, results_dir, fs_ops,
                   text, extracted>>

\* lines 818-820, save_results is called
main_save ==
    /\ pc = "save"
    /\ ~args.no_save /\ Get(output_text) # <<>>
    /\ \E pre \in PreDirs, d \in VideoDirs, git \in {"no_repo", "ignored", "not_ignored"} :
        /\ env' = [env EXCEPT !.video_dir = d, !.git = git]
        /\ results_dir' = Some(save_results(DirBefore(pre, d), d))
        /\ fs_ops' = fs_ops \o save_results_ops(DirBefore(pre, d), d, git)
    /\ Exit(0, <<"Saved">>)
    /\ UNCHANGED <<args, resolved, use_raw, raw_text, output_text, metadata,
                   requests, in_flight, ffmpeg_runs, stdout, text, extracted>>

\* lines 818-820, --no-save or nothing to save
main_no_save ==
    /\ pc = "save"
    /\ args.no_save \/ Get(output_text) = <<>>
    /\ Exit(0, <<>>)
    /\ UNCHANGED <<args, resolved, env, use_raw, raw_text, output_text, metadata,
                   requests, in_flight, ffmpeg_runs, stdout, results_dir, fs_ops,
                   text, extracted>>

Next ==
    \/ main_resolve_mode
    \/ main_resolve_mode_raises
    \/ main_api_key
    \/ main_video
    \/ call_gemini_enter
    \/ call_gemini_structured_send
    \/ call_gemini_structured_ok
    \/ call_gemini_structured_failed
    \/ call_gemini_raw_send
    \/ call_gemini_raw_ok
    \/ call_gemini_raw_raises
    \/ call_kimi_enter
    \/ preprocess_video_for_kimi
    \/ call_kimi_send
    \/ call_kimi_raises
    \/ call_kimi_reply
    \/ main_print
    \/ main_save
    \/ main_no_save

Spec == Init /\ [][Next]_vars

(***************************************************************************)
(* resolve_mode alone, over every --fps override                           *)
(***************************************************************************)
InitResolve ==
    /\ args \in ArgsOver(FpsArgs)
    /\ pc = "resolve"
    /\ Idle

NextResolve ==
    \/ main_resolve_mode
    \/ main_resolve_mode_raises

SpecResolve == InitResolve /\ [][NextResolve]_vars

(***************************************************************************)
(* extract_json_from_response alone, over every short text                 *)
(***************************************************************************)
RECURSIVE TextsOfLen(_)
TextsOfLen(n) ==
    IF n = 0 THEN {<<>>}
    ELSE {Append(t, c) : t \in TextsOfLen(n - 1), c \in Tokens}

Texts == UNION {TextsOfLen(n) : n \in 0..MaxTextLen} \cup SampleResponses

InitExtract ==
    /\ args \in ArgsOver({None})
    /\ args.mode = None /\ args.model = None /\ args.provider = "kimi"
    /\ ~args.raw /\ ~args.json /\ ~args.no_save /\ args.video_ext = ".mp4"
    /\ pc = "extract"
    /\ resolved = None
    /\ env = EnvUnread
    /\ use_raw = FALSE
    /\ raw_text = None
    /\ output_text = None
    /\ metadata = [kimi_mode |-> None]
    /\ requests = <<>>
    /\ in_flight = 0
    /\ ffmpeg_runs = <<>>
    /\ stdout = <<>>
    /\ stderr = <<>>
    /\ exit_code = 0
    /\ results_dir = None
    /\ fs_ops = <<>>
    /\ text \in Texts
    /\ extracted = None

\* lines 375-406
extract_json_from_response_call ==
    /\ pc = "extract"
    /\ extracted' = Some(extract_json_from_response(text))
    /\ pc' = "extract_done"
    /\ UNCHANGED <<args, resolved, env, use_raw, raw_text, output_text, metadata,
                   requests, in_flight, ffmpeg_runs, stdout, stderr, exit_code,
                   results_dir, fs_ops, text>>

NextExtract == extract_json_from_response_call

SpecExtract == InitExtract /\ [][NextExtract]_vars

(***************************************************************************)
(* Properties                                                              *)
(***************************************************************************)
Printed(m) == \E i \in 1..Len(stderr) : stderr[i] = m

\* resolve_mode has returned
Resolved == resolved # None

\* C1: in every run, every request issued to the provider (the Gemini
\* structured request, the Gemini free-text request after a fallback, the
\* Kimi request) carries the system prompt resolve_mode built and samples the
\* video at the frames-per-second number written in that prompt's preamble,
\* and so does every ffmpeg run; also when the requested fps was capped.
C1_PromptFpsIsProviderFps ==
    /\ \A i \in 1..Len(requests) :
        /\ Resolved
        /\ requests[i].system_prompt = Get(resolved).system_prompt
        /\ requests[i].fps = requests[i].system_prompt.preamble.fps
    /\ \A i \in 1..Len(ffmpeg_runs) :
        /\ Resolved
        /\ ffmpeg_runs[i].fps = Get(resolved).system_prompt.preamble.fps

\* a capped --fps, a failed structured attempt and the free-text request after it
C1_Witness ==
    /\ args.fps # None /\ Get(args.fps) > MAX_FPS
    /\ Len(requests) = 2
    /\ requests[1].structured /\ ~requests[2].structured
    /\ requests[2].fps = MAX_FPS

\* C2: for every mode, both providers and every resolved sampling rate in
\* 1..24, the window stated in the preamble is the integer nearest to
\* 1000 / rate (Python's round: a tie goes to the even integer), and the
\* worked duration example is three times that window.
C2_IntervalIsRounded ==
    (Resolved /\ Get(resolved).fps \in 1..MAX_FPS) =>
        LET p == Get(resolved).system_prompt.preamble
            f == Get(resolved).fps
            off == Abs(p.interval_ms * f - 1000)
        IN  /\ p.fps = f
            /\ 2 * off <= f
            /\ (2 * off = f => p.interval_ms % 2 = 0)
            /\ p.example_duration = 3 * p.interval_ms

\* 1000 / 16 = 62.5 is the one tie of 1..24; it is stated as 62 ms
C2_Witness ==
    /\ Resolved
    /\ args.provider = "kimi"
    /\ Get(resolved).fps = 16
    /\ Get(resolved).system_prompt.preamble.interval_ms = 62
    /\ Get(resolved).system_prompt.preamble.example_duration = 186

\* C3: the sampling rate resolve_mode returns is the --fps override if
\* present, else the mode default; when that value exceeds MAX_FPS the
\* returned rate is exactly MAX_FPS and the warning is printed; the returned
\* rate is never above MAX_FPS.
C3_FpsCapped ==
    Resolved =>
        LET m == IF args.mode = None THEN "review" ELSE Get(args.mode)
            requested == IF args.fps = None THEN MODES[m].fps ELSE Get(args.fps)
            capped == Printed("Warning: FPS exceeds max, capping")
        IN  /\ Get(resolved).fps <= MAX_FPS
            /\ requested > MAX_FPS => (Get(resolved).fps = MAX_FPS /\ capped)
            /\ requested <= MAX_FPS => (Get(resolved).fps = requested /\ ~capped)

C3_Witness ==
    /\ Resolved
    /\ args.fps = Some(MAX_FPS + 1)
    /\ Get(resolved).fps = MAX_FPS
    /\ Printed("Warning: FPS exceeds max, capping")

\* C4: the output format resolve_mode returns is structured when --json is
\* set (whatever --raw and the mode), else free text when --raw is set, else
\* free text exactly when the mode is diagnose or inspire.
C4_FormatPrecedence ==
    Resolved =>
        LET m == IF args.mode = None THEN "review" ELSE Get(args.mode)
        IN  /\ args.json => ~Get(resolved).use_raw
            /\ (~args.json /\ args.raw) => Get(resolved).use_raw
            /\ (~args.json /\ ~args.raw) =>
                   (Get(resolved).use_raw <=> m \in {"diagnose", "inspire"})
            /\ (m \in {"check", "review"} /\ ~args.json /\ ~args.raw) =>
                   ~Get(resolved).use_raw

\* --json on a free-text mode, with and without --raw
C4_Witness ==
    /\ Resolved
    /\ args.mode = Some("inspire")
    /\ args.json /\ args.raw
    /\ ~Get(resolved).use_raw

\* the model the run asks for: the --model override, else the mode default
RequestedModel ==
    IF args.model # None THEN Get(args.model)
    ELSE MODES[IF args.mode = None THEN "review" ELSE Get(args.mode)].model

KimiUnmapped ==
    /\ args.provider = "kimi"
    /\ RequestedModel \notin {"gemini-2.5-flash", "gemini-2.5-pro"}

\* C5: a kimi run whose model is not a key of KIMI_MODEL_MAP never
\* pre-processes the video and never sends a request (so none with a
\* substituted Kimi model or mode); it prints no analysis, ends with a
\* non-zero status, and once call_kimi has looked the model up the last thing
\* it reports is the missing mapping.
C5_UnmappedKimiModelFatal ==
    KimiUnmapped =>
        /\ requests = <<>> /\ in_flight = 0
        /\ ffmpeg_runs = <<>>
        /\ stdout = <<>>
        /\ metadata.kimi_mode = None
        /\ pc \in {"resolve", "credential", "video", "call_kimi", "exited"}
        /\ pc = "exited" => exit_code # 0
        /\ (pc = "exited" /\ env.sdk = "installed") =>
               stderr[Len(stderr)] = "Error: No Kimi mapping for model"

C5_Witness ==
    /\ KimiUnmapped
    /\ pc = "exited"
    /\ env.sdk = "installed"
    /\ exit_code = 1
    /\ Printed("Error: No Kimi mapping for model")

\* C6 (as claimed): a --fps override <= 0 is fatal: resolve_mode returns no
\* Resolved Request for it, and no provider request is made with it.
C6_NonPositiveFpsFatal ==
    (args.fps # None /\ Get(args.fps) <= 0) =>
        /\ ~Resolved
        /\ requests = <<>>
        /\ ffmpeg_runs = <<>>

\* C7: the system prompt resolve_mode returns holds the schema instruction
\* (the schema of the mode) exactly when the output format is structured and
\* the provider is kimi; its other parts are always the preamble and the
\* body of the mode.
C7_SchemaInstructionOnlyKimiStructured ==
    Resolved =>
        LET r == Get(resolved)
            m == IF args.mode = None THEN "review" ELSE Get(args.mode)
        IN  /\ r.system_prompt.body.mode = m
            /\ r.system_prompt.preamble.template =
                   (IF args.provider = "kimi" THEN "TEMPORAL_PREAMBLE_KIMI"
                    ELSE "TEMPORAL_PREAMBLE")
            /\ (r.system_prompt.schema_instruction # None)
                   <=> (~r.use_raw /\ args.provider = "kimi")
            /\ r.system_prompt.schema_instruction # None =>
                   r.system_prompt.schema_instruction = Some(MODE_SCHEMAS[m])

C7_Witness ==
    /\ Resolved
    /\ args.provider = "kimi"
    /\ args.mode = Some("diagnose") /\ args.json
    /\ Get(resolved).system_prompt.schema_instruction = Some(DIAGNOSE_SCHEMA)

FencedReply == <<"F", "json", "ws", "{", "m", "}", "ws", "F">>

\* the value each recovery strategy yields for a text, None when it fails
DirectValue(t) == json_loads(Strip(t))
FencedValue(t) ==
    IF FencedSearch(Strip(t)) = None THEN None
    ELSE json_loads(Get(FencedSearch(Strip(t))))
BraceValue(t) ==
    IF BraceBlock(Strip(t)) = None THEN None
    ELSE json_loads(Get(BraceBlock(Strip(t))))

\* C8: extract_json_from_response returns the value of the first strategy
\* that parses, in the order whole trimmed text, interior of the fenced
\* block, first "{" to last "}"; the clean flag is true exactly when the
\* whole text parsed; with no strategy parsing it returns no value; the
\* fenced JSON object is recovered as that object with a non-clean flag.
C8_FirstParseWins ==
    pc = "extract_done" =>
        LET e == Get(extracted)
            a == DirectValue(text)
            b == FencedValue(text)
            c == BraceValue(text)
        IN  /\ a # None => e.parsed = a
            /\ (a = None /\ b # None) => e.parsed = b
            /\ (a = None /\ b = None /\ c # None) => e.parsed = c
            /\ (a = None /\ b = None /\ c = None) => e.parsed = None
            /\ e.was_clean <=> a # None
            /\ text = FencedReply =>
                   e = [parsed |-> Some(JsonObject(1)), was_clean |-> FALSE]

C8_Witness ==
    /\ pc = "extract_done"
    /\ text = FencedReply
    /\ DirectValue(text) = None
    /\ Get(extracted) = [parsed |-> Some(JsonObject(1)), was_clean |-> FALSE]

\* a kimi run that asked for structured output and got a reply on which all
\* three strategies fail
KimiRecoveryFailed ==
    /\ args.provider = "kimi"
    /\ Resolved /\ ~Get(resolved).use_raw
    /\ raw_text # None
    /\ DirectValue(Get(raw_text)) = None
    /\ FencedValue(Get(raw_text)) = None
    /\ BraceValue(Get(raw_text)) = None

\* C9: when a structured reply was asked of kimi and all three strategies
\* fail on it, extract_json_from_response returns no value, call_kimi returns
\* the reply unmodified with the output mode switched to free text and the
\* warning printed, and the run goes on: it prints that text, ends with
\* status 0 and, unless --no-save is set or the text is empty, saves it as
\* the .md analysis file.
C9_KimiFallsBackToRawText ==
    KimiRecoveryFailed =>
        /\ extracted = Some([parsed |-> None, was_clean |-> FALSE])
        /\ output_text = raw_text
        /\ use_raw
        /\ Printed("Warning: Could not extract JSON, returning raw text")
        /\ pc \in {"print", "save", "exited"}
        /\ pc \in {"save", "exited"} => stdout = <<Get(raw_text)>>
        /\ pc = "exited" =>
            /\ exit_code = 0
            /\ (~args.no_save /\ Get(raw_text) # <<>>) =>
                   /\ results_dir # None
                   /\ \E f \in Get(results_dir) :
                        /\ f.name = "analysis" /\ f.ext = ".md"
                        /\ f.content = Get(raw_text)
                   /\ ~\E f \in Get(results_dir) :
                        f.name = "analysis" /\ f.ext = ".json"

C9_Witness ==
    /\ KimiRecoveryFailed
    /\ pc = "exited" /\ exit_code = 0
    /\ raw_text = Some(<<"x", "x">>)
    /\ stdout = << <<"x", "x">> >>
    /\ results_dir # None
    /\ \E f \in Get(results_dir) : f.ext = ".md" /\ f.content = <<"x", "x">>

SupportedContainer == args.video_ext \in {".mp4", ".mov", ".webm"}

\* C10 (as claimed), for the runs whose --fps is absent or positive and
\* that find the provider's package installed: the exit status is non-zero
\* exactly when the credential is missing, the video file does not exist,
\* the container type is unsupported or the model is unmapped for the active
\* provider, with either provider.
C10_ExitStatusAsClaimed ==
    (/\ pc = "exited"
     /\ args.fps = None \/ Get(args.fps) > 0
     /\ env.sdk # "missing") =>
        (exit_code # 0 <=>
            \/ env.credential = "unset"
            \/ env.video = "missing"
            \/ ~SupportedContainer
            \/ KimiUnmapped)

\* C10 (amended): the exit status is non-zero exactly when the credential is
\* missing, the video file does not exist, the provider's package is not
\* installed, the container type is unsupported and the provider is gemini,
\* the model is unmapped and the provider is kimi, ffmpeg fails, the Gemini
\* free-text request or the Kimi request raises, or --fps is 0; it is zero
\* otherwise, also when structured decoding degraded to free text.
C10_ExitStatus ==
    pc = "exited" =>
        (exit_code # 0 <=>
            \/ env.credential = "unset"
            \/ env.video = "missing"
            \/ env.sdk = "missing"
            \/ args.provider = "gemini" /\ ~SupportedContainer
            \/ KimiUnmapped
            \/ env.ffmpeg = "failed"
            \/ Printed("Traceback: provider request failed")
            \/ args.fps = Some(0))

\* structured output was asked for, the run degraded to free text and ended 0
C10_Witness ==
    /\ pc = "exited" /\ exit_code = 0
    /\ ~Get(resolved).use_raw /\ use_raw
    /\ args.provider = "kimi" /\ ~SupportedContainer

\* the four fatal configuration errors and the message each one ends with
FatalConfigErrors ==
    {"Error: environment variable not set",
     "Error: Video file not found",
     "Error: Unsupported video format",
     "Error: No Kimi mapping for model"}

\* the run has ended with a fatal configuration error
EndedWithConfigError ==
    /\ pc = "exited"
    /\ \E m \in FatalConfigErrors : Printed(m)

\* C11: whenever a run ends with a fatal configuration error (missing
\* credential, missing input file, unsupported file type, unmapped model for
\* the active provider) it ends with status 1 and, at termination, nothing
\* has been printed to stdout, nothing was written, moved, copied or purged
\* in the results directory, no provider request was issued and ffmpeg was
\* not run.
C11_ConfigErrorBeforeAnyEffect ==
    EndedWithConfigError =>
        /\ exit_code = 1
        /\ stdout = <<>>
        /\ fs_ops = <<>>
        /\ results_dir = None
        /\ requests = <<>>
        /\ in_flight = 0
        /\ ffmpeg_runs = <<>>
        /\ output_text = None

\* a gemini run stopped by the container check, the last check before a
\* request would go out
C11_Witness ==
    /\ EndedWithConfigError
    /\ Printed("Error: Unsupported video format")
    /\ args.provider = "gemini" /\ args.video_ext = ".avi"
    /\ env.credential # "unset" /\ env.video # "missing"
    /\ requests = <<>> /\ stdout = <<>>

\* resolve_mode was called with --mode diagnose and no --fps, --model, --raw
\* or --json
DiagnoseNoOverrides ==
    /\ Resolved
    /\ args.mode = Some("diagnose")
    /\ args.fps = None /\ args.model = None
    /\ ~args.raw /\ ~args.json

\* C12: resolve_mode with mode diagnose and no overrides returns fps 24,
\* model gemini-2.5-pro, free-text output, the diagnose schema, and a system
\* prompt that starts with the temporal preamble (written for 24 fps, 42 ms
\* between frames), continues with the diagnose body, whose headers include
\* "Observations" and "Hypotheses", and carries no schema instruction.
C12_DiagnoseDefaults ==
    DiagnoseNoOverrides =>
        LET r == Get(resolved)
            p == r.system_prompt
        IN  /\ r.fps = 24
            /\ r.model = "gemini-2.5-pro"
            /\ r.use_raw
            /\ r.schema.name = "DIAGNOSE_SCHEMA"
            /\ r.schema.required = {"summary", "observations", "hypotheses"}
            /\ p.preamble.template \in {"TEMPORAL_PREAMBLE", "TEMPORAL_PREAMBLE_KIMI"}
            /\ p.preamble.fps = 24
            /\ p.preamble.interval_ms = 42
            /\ p.body.mode = "diagnose"
            /\ {"Observations", "Hypotheses"} \subseteq p.body.headers
            /\ p.schema_instruction = None

C12_Witness ==
    /\ DiagnoseNoOverrides
    /\ args.provider = "gemini"
    /\ Get(resolved).fps = 24 /\ Get(resolved).use_raw
    /\ Get(resolved).system_prompt.body.headers = {"Observations", "Hypotheses"}

\* C13: never more than one request is in flight, and a request is re-issued
\* only by the Gemini structured-to-raw fallback: a gemini run issues at most
\* two requests, the second only after the structured attempt failed and as
\* a free-text request; a kimi run issues at most one; when the free-text
\* request or the kimi request fails the run is over, with nothing in flight.
C13_OneRequestNoRetry ==
    /\ in_flight \in {0, 1}
    /\ in_flight = 1 => pc \in {"gemini_structured_wait", "gemini_raw_wait", "kimi_wait"}
    /\ args.provider = "kimi" => Len(requests) <= 1
    /\ args.provider = "gemini" =>
        /\ Len(requests) <= 2
        /\ Len(requests) = 2 =>
            /\ requests[1].structured
            /\ ~requests[2].structured
            /\ Printed("Structured output failed, falling back to raw text...")
        /\ Printed("Structured output failed, falling back to raw text...") =>
            /\ Len(requests) >= 1
            /\ requests[1].structured
    /\ Printed("Traceback: provider request failed") =>
        /\ pc = "exited" /\ exit_code = 1
        /\ in_flight = 0
        /\ ~requests[Len(requests)].structured \/ args.provider = "kimi"

\* the fallback request failed too and was not retried
C13_Witness ==
    /\ pc = "exited"
    /\ args.provider = "gemini"
    /\ Len(requests) = 2
    /\ Printed("Structured output failed, falling back to raw text...")
    /\ Printed("Traceback: provider request failed")
    /\ in_flight = 0

\* the value of the first recovery strategy that parses a text, None when
\* none does
FirstParsedValue(t) ==
    IF DirectValue(t) # None THEN DirectValue(t)
    ELSE IF FencedValue(t) # None THEN FencedValue(t)
    ELSE BraceValue(t)

\* C14: in call_kimi, whenever a recovery strategy parses the reply to a
\* structured request, the parse wins, whatever the value (an empty object
\* and zero included): the returned text is the re-serialised parsed value,
\* the output mode stays structured and the could-not-extract warning is not
\* printed.
C14_KimiParseWins ==
    (/\ args.provider = "kimi"
     /\ Resolved /\ ~Get(resolved).use_raw
     /\ raw_text # None
     /\ FirstParsedValue(Get(raw_text)) # None) =>
        /\ output_text = Some(json_dumps(Get(FirstParsedValue(Get(raw_text)))))
        /\ ~use_raw
        /\ ~Printed("Warning: Could not extract JSON, returning raw text")

\* the kimi request of the run has been sent
KimiRequestSent == args.provider = "kimi" /\ Len(requests) = 1

\* the abstract model the run asks for is the pro tier: --model names it, or
\* --model is absent and the mode is diagnose or inspire
WantsPro ==
    \/ args.model = Some("gemini-2.5-pro")
    \/ args.model = None /\ args.mode \in {Some("diagnose"), Some("inspire")}

\* ... the flash tier: --model names it, or --model is absent and the mode is
\* check, review or absent
WantsFlash ==
    \/ args.model = Some("gemini-2.5-flash")
    \/ args.model = None /\ args.mode \in {None, Some("check"), Some("review")}

\* C15: with kimi the model is translated through KIMI_MODEL_MAP: flash (the
\* default of check and review) is sent as kimi-k2.5 with thinking disabled,
\* pro (the default of diagnose and inspire) as kimi-k2.5 with thinking
\* enabled, no other model is sent at all, and the kimi_mode of the metadata
\* names the thinking mode of the request that was sent.
C15_KimiModelTranslation ==
    KimiRequestSent =>
        /\ WantsFlash \/ WantsPro
        /\ requests[1].model = "kimi-k2.5"
        /\ WantsFlash => requests[1].thinking = Some(FALSE)
        /\ WantsPro => requests[1].thinking = Some(TRUE)
        /\ metadata.kimi_mode # None =>
            /\ requests[1].thinking = Some(TRUE) => metadata.kimi_mode = Some("thinking")
            /\ requests[1].thinking = Some(FALSE) => metadata.kimi_mode = Some("instant")
        /\ pc \in {"print", "save"} => metadata.kimi_mode # None

\* check mode with --model gemini-2.5-pro: the override decides, thinking
\* is enabled and reported
C15_Witness ==
    /\ KimiRequestSent
    /\ args.mode = Some("check") /\ args.model = Some("gemini-2.5-pro")
    /\ requests[1].thinking = Some(TRUE)
    /\ metadata.kimi_mode = Some("thinking")
    /\ pc = "exited" /\ exit_code = 0

\* C16: the schema resolve_mode returns depends on the task mode alone
\* (check and review: the review schema; diagnose: the diagnose schema;
\* inspire: the inspire schema; an absent mode counts as review), whatever
\* --fps, --model, the provider and the format flags are; the model it
\* returns is --model when given and the default of the mode otherwise
\* (flash for check and review, pro for diagnose and inspire), whatever
\* --fps, the provider and the format flags are.
C16_SchemaAndModelFrame ==
    Resolved =>
        LET r == Get(resolved)
            m == IF args.mode = None THEN "review" ELSE Get(args.mode)
        IN  /\ r.mode_name = m
            /\ m \in {"check", "review"} => r.schema.name = "REVIEW_SCHEMA"
            /\ m = "diagnose" => r.schema.name = "DIAGNOSE_SCHEMA"
            /\ m = "inspire" => r.schema.name = "INSPIRE_SCHEMA"
            /\ args.model # None => r.model = Get(args.model)
            /\ (args.model = None /\ m \in {"check", "review"}) =>
                   r.model = "gemini-2.5-flash"
            /\ (args.model = None /\ m \in {"diagnose", "inspire"}) =>
                   r.model = "gemini-2.5-pro"

\* diagnose with every other argument overridden: the schema is still the
\* diagnose schema and the model is the override
C16_Witness ==
    /\ Resolved
    /\ args.mode = Some("diagnose")
    /\ args.fps = Some(5) /\ args.model = Some("gemini-2.5-flash")
    /\ args.provider = "kimi" /\ args.json /\ args.raw
    /\ Get(resolved).schema = DIAGNOSE_SCHEMA
    /\ Get(resolved).model = "gemini-2.5-flash"

\* position of the first occurrence of an operation in fs_ops, 0 when absent
FirstOp(op) ==
    IF \E i \in 1..Len(fs_ops) : fs_ops[i] = op
    THEN CHOOSE i \in 1..Len(fs_ops) :
             fs_ops[i] = op /\ \A j \in 1..(i - 1) : fs_ops[j] # op
    ELSE 0

\* C17: on every save the regular files older than 14 days are removed
\* before the analysis and the video are written, so that right after a save
\* the results directory holds no regular file older than 14 days; and a run
\* with --no-save or with an empty output text purges nothing, creates no
\* directory and writes nothing.
C17_NothingExpiredAfterSave ==
    /\ results_dir # None =>
        /\ \A f \in Get(results_dir) : f.isfile => f.age <= 14
        /\ FirstOp("remove") # 0 =>
            /\ FirstOp("remove") < FirstOp("write analysis")
            /\ FirstOp("move video") # 0 => FirstOp("remove") < FirstOp("move video")
            /\ FirstOp("copy video") # 0 => FirstOp("remove") < FirstOp("copy video")
    /\ (pc = "exited" /\ (args.no_save \/ output_text \in {None, Some(<<>>)})) =>
        /\ fs_ops = <<>>
        /\ results_dir = None

\* call_gemini or call_kimi has returned
ProviderReturned == pc \in {"print", "save", "exited"} /\ output_text # None

\* the value the provider function parsed out of the reply: json.loads for
\* gemini, the recovery strategies for kimi
ParsedFromReply ==
    IF args.provider = "gemini" THEN json_loads(Get(raw_text))
    ELSE FirstParsedValue(Get(raw_text))

\* C18: the output mode call_gemini and call_kimi return describes the text
\* they return: in structured mode the text is the re-serialisation of a
\* value parsed out of the reply, and parses back to that value; in free-text
\* mode the text is the reply as it came, and when structured output had been
\* asked for the degradation was reported; the analysis file is .json exactly
\* when the mode is structured, its content is then parseable JSON, and it is
\* .md in every free-text or degraded case.
C18_ModeDescribesText ==
    ProviderReturned =>
        /\ ~use_raw =>
            /\ ~Get(resolved).use_raw
            /\ ParsedFromReply # None
            /\ output_text = Some(json_dumps(Get(ParsedFromReply)))
            /\ json_loads(Get(output_text)) = ParsedFromReply
        /\ use_raw =>
            /\ output_text = raw_text
            /\ ~Get(resolved).use_raw =>
                \/ Printed("Structured output failed, falling back to raw text...")
                \/ Printed("Warning: Could not extract JSON, returning raw text")
        /\ results_dir # None =>
            /\ \E f \in Get(results_dir) :
                /\ f.name = "analysis"
                /\ f.content = Get(output_text)
                /\ f.ext = ".json" <=> ~use_raw
                /\ f.ext = ".md" <=> use_raw
                /\ f.ext = ".json" => json_loads(f.content) # None
            /\ \A f, g \in Get(results_dir) :
                (f.name = "analysis" /\ g.name = "analysis") => f = g

\* a fenced kimi reply saved as re-serialised JSON in a .json file
C18_Witness ==
    /\ ProviderReturned /\ pc = "exited"
    /\ args.provider = "kimi"
    /\ raw_text = Some(FencedReply)
    /\ ~use_raw
    /\ results_dir # None
    /\ \E f \in Get(results_dir) :
        /\ f.name = "analysis" /\ f.ext = ".json"
        /\ f.content = <<"{", "ws", "m", "ws", "}">>

====
